---- MODULE Spec2Model ----
(***************************************************************************)
(* Model of the URL rewriting engine of fuckburl-bot (src/src/replacer.rs)  *)
(* and of the update handler that drives it (src/src/event.rs).             *)
(* Texts are TLA+ strings; a position p is the 1-based index of the next    *)
(* character, a match is the half-open span [st, en).  All texts of the     *)
(* model are ASCII, so a Rust byte offset o is the position o + 1.          *)
(***************************************************************************)
EXTENDS Naturals, Sequences, FiniteSets, TLC

VARIABLES
  net,      \* the network the shared client talks to: short URL -> response
  pc,       \* "idle", or the call in progress: "text", "qr", "keep", "update"
  input,    \* replace_all: the text argument
  new,      \* replace_all: the local `new`
  before,   \* replace_all: `new` as it was before the last rule ran
  stage,    \* replace_all: number of rules that have run (0..13)
  status,   \* outcome so far: "run", "ok", "err", "panic"
  reqs,     \* the calls of get_redirect_url made during the call, in order
  prev,     \* <<>>, or <<input, output>> of the call whose output is the input now
  image,    \* replace_qrcode: the grids rqrr detects in the image, in order
  gi,       \* replace_qrcode: number of grids the loop has consumed
  replaced_cnt, \* replace_qrcode: the local `replaced_cnt`
  urls,     \* replace_qrcode: the local `urls`
  overlays, \* replace_qrcode: every overlay drawn on new_img, in order
  qres,     \* replace_qrcode: "none", "some", or "" while running / on Err
  kurl,     \* keep_pairs_only_in: the URL (as a string) it is applied to
  kkeys,    \* keep_pairs_only_in: the allow-list
  kout,     \* keep_pairs_only_in: the URL afterwards, "" before the call
  msg,      \* process_update: the update it is called with
  api,      \* process_update: which requests the Bot API and the file server answer
  step,     \* process_update: "photo", "text", "send", "delete", or how it ended
  calls,    \* process_update: the Bot API requests issued so far, in order
  replaced_image, \* process_update: the local `replaced_image` (None is <<>>)
  changed_text    \* process_update: the local `changed_text` (None is <<>>)

vars == <<net, pc, input, new, before, stage, status, reqs, prev,
          image, gi, replaced_cnt, urls, overlays, qres, kurl, kkeys, kout,
          msg, api, step, calls, replaced_image, changed_text>>

----------------------------------------------------------------------------
(* Characters and the primitive steps of a backtracking regex match.        *)

Lower == {"a","b","c","d","e","f","g","h","i","j","k","l","m",
          "n","o","p","q","r","s","t","u","v","w","x","y","z"}
Upper == {"A","B","C","D","E","F","G","H","I","J","K","L","M",
          "N","O","P","Q","R","S","T","U","V","W","X","Y","Z"}
Digit == {"0","1","2","3","4","5","6","7","8","9"}
Letter == Lower \cup Upper
AlNum == Letter \cup Digit

\* The character at p, "" past either end.
Ch(s, p) == IF p >= 1 /\ p <= Len(s) THEN SubSeq(s, p, p) ELSE ""

\* A literal at p: the position after it, 0 when it does not match.
Lit(s, p, l) ==
  IF p >= 1 /\ p + Len(l) - 1 <= Len(s) /\ SubSeq(s, p, p + Len(l) - 1) = l
  THEN p + Len(l) ELSE 0

\* The first of two attempts that succeeds.
OrElse(a, b) == IF a # 0 THEN a ELSE b

\* (l)? at p, greedy.
Opt(s, p, l) == OrElse(Lit(s, p, l), p)

\* The first position >= p (p >= 1) holding a character of C, Len(s) + 1
\* when there is none.
Find(s, p, C) ==
  CHOOSE q \in p..(Len(s) + 1) :
    /\ q = Len(s) + 1 \/ Ch(s, q) \in C
    /\ \A r \in p..(q - 1) : Ch(s, r) \notin C

\* [C]* at p, greedy: the position after the longest run of characters of C.
Many(s, p, C) ==
  CHOOSE q \in p..(Len(s) + 1) :
    /\ q = Len(s) + 1 \/ Ch(s, q) \notin C
    /\ \A r \in p..(q - 1) : Ch(s, r) \in C

\* [C]+ at p, greedy; 0 when no character of C is at p.
Many1(s, p, C) == IF Ch(s, p) \in C THEN Many(s, p, C) ELSE 0

\* [^=&]* at p, greedy.
ManyNotEqAmp(s, p) == Find(s, p, {"=", "&"})

\* One iteration &?[^=&]*=[^=&]* at p; 0 when it cannot match.  With the '&'
\* taken the run [^=&]* stops before '=', '&' or the end, and no shorter run is
\* followed by '='; without it the same holds, so the greedy attempt decides.
\* =[^=&]* at b: the position after it, 0 when no '=' is at b.
EqValue(s, b) == IF Ch(s, b) = "=" THEN ManyNotEqAmp(s, b + 1) ELSE 0

ParamIter(s, p) ==
  OrElse(EqValue(s, ManyNotEqAmp(s, IF Ch(s, p) = "&" THEN p + 1 ELSE p)),
         EqValue(s, ManyNotEqAmp(s, p)))

\* (?:&?[^=&]*=[^=&]*)* at p: nothing follows it in any pattern, so the first
\* (greedy) path is the match.
RECURSIVE ParamStar(_, _)
ParamMore(s, p, e) == IF e = 0 THEN p ELSE ParamStar(s, e)
ParamStar(s, p) == ParamMore(s, p, ParamIter(s, p))

\* The tails of the patterns, (?:...)* and \??(?:...)*, failing (0) when what
\* precedes them failed.
Params(s, p) == IF p = 0 THEN 0 ELSE ParamStar(s, p)

QueryTail(s, p) == IF p = 0 THEN 0 ELSE ParamStar(s, Opt(s, p, "?"))

\* https?:// at p.
Scheme(s, p) == OrElse(Lit(s, p, "https://"), Lit(s, p, "http://"))

\* (?<![a-zA-Z]) at p.
NotAfterLetter(s, p) == Ch(s, p - 1) \notin Letter

\* One of two literals at p (no text matches both).
Alt(s, p, l1, l2) == OrElse(Lit(s, p, l1), Lit(s, p, l2))

\* A literal that must follow a step that may have failed.
Then(s, p, l) == IF p = 0 THEN 0 ELSE Lit(s, p, l)

\* A match: e the position after it (0: no match), [a, b) and [c, d) the spans
\* of the pattern's captured groups.
NoMatch == [e |-> 0, a |-> 0, b |-> 0, c |-> 0, d |-> 0]
M(e, a, b, c, d) == IF e = 0 THEN NoMatch ELSE [e |-> e, a |-> a, b |-> b, c |-> c, d |-> d]

\* The positions after the group (https?://|(?<![a-zA-Z])|^) at p, in the order
\* the alternatives are tried.
Positions(a) == IF a # 0 THEN <<a>> ELSE <<>>
Prefix(s, p) ==
  Positions(Scheme(s, p))
  \o (IF NotAfterLetter(s, p) THEN <<p>> ELSE <<>>)
  \o (IF p = 1 THEN <<p>> ELSE <<>>)

\* The first match among the attempts rs, NoMatch when all failed.
Pick(rs) ==
  IF \E i \in 1..Len(rs) : rs[i].e # 0
  THEN rs[CHOOSE i \in 1..Len(rs) :
            rs[i].e # 0 /\ \A j \in 1..(i - 1) : rs[j].e = 0]
  ELSE NoMatch

\* Many patterns are a group [p, e) followed by the tail \??(?:...)*.
UrlThenTail(s, p, e) == M(QueryTail(s, e), p, e, 0, 0)

\* A group [a, b) followed by the tail \??(?:...)*.
GroupThenTail(s, a, b) == M(QueryTail(s, b), a, b, 0, 0)

----------------------------------------------------------------------------
(* The patterns.  XXX_REGEX(s, p, q) is the match of the pattern that      *)
(* starts at p and whose prefix group ends at q: the record M of where the   *)
(* match and its named groups end, NoMatch's e = 0 when there is none.       *)

\* ((b23\.tv|bili2233\.cn)/[0-9a-zA-Z]+/?)\??(?:&?[^=&]*=[^=&]*)*
BSHORT_REGEX(s, p, q) ==
  UrlThenTail(s, p, Opt(s, Many1(s, Then(s, Alt(s, q, "b23.tv", "bili2233.cn"), "/"),
                                 AlNum), "/"))

\* (?P<url>(www\.)?bilibili\.com/video/[0-9a-zA-Z]+/?)\??(?:...)*
BVIDEO_REGEX(s, p, q) ==
  UrlThenTail(s, p, Opt(s, Many1(s, Lit(s, Opt(s, q, "www."), "bilibili.com/video/"),
                                 AlNum), "/"))

\* (www\.)?(youtube\.com|youtu\.be)/(watch|[a-zA-Z_]+)\??(?:...)*
\* Everything after (watch|[a-zA-Z_]+) can match the empty string, so the
\* first alternative that matches is the one the match keeps.
WatchOrName(s, h) == OrElse(Then(s, h, "watch"), Many1(s, h, Letter \cup {"_"}))
YOUTUBE_REGEX(s, p, q) ==
  UrlThenTail(s, p, WatchOrName(s, Then(s, Alt(s, Opt(s, q, "www."),
                                               "youtube.com", "youtu.be"), "/")))

\* (www\.)?bilibili\.com/read/mobile/(?P<cvid>[0-9]+)\??(?:...)*
Digits(s, h) == GroupThenTail(s, h, Many1(s, h, Digit))
BARTICLE_REGEX(s, p, q) ==
  Digits(s, Lit(s, Opt(s, q, "www."), "bilibili.com/read/mobile/"))

\* ((www|m)\.)?bilibili\.com/opus/(?P<opus_id>[0-9]+)\??(?:...)*
BOPUS_REGEX(s, p, q) ==
  Digits(s, Lit(s, OrElse(Alt(s, q, "www.", "m."), q), "bilibili.com/opus/"))

\* (www\.)?amazon\.(com|co(\.[a-zA-Z]+)?)/ : the position after the '/'.
\* "com" and "co" followed by '/' or '.' exclude each other.
CountryCode(s, co) == OrElse(Many1(s, Then(s, co, "."), Letter), co)
ComOrCo(s, h) ==
  OrElse(Then(s, Then(s, h, "com"), "/"),
         Then(s, CountryCode(s, Then(s, h, "co")), "/"))
AmazonDomain(s, q) == ComOrCo(s, Lit(s, Opt(s, q, "www."), "amazon."))

\* (?P<domain>...amazon.../)[a-zA-Z0-9%-]+/(?P<path>dp/[0-9a-zA-Z]+/?)\??(?:...)*
DpPath(s, p, h, i, e) == M(QueryTail(s, e), p, h, i, e)
ProductPath(s, p, h, i) ==
  DpPath(s, p, h, i, Opt(s, Many1(s, Then(s, i, "dp/"), AlNum), "/"))
ProductName(s, p, h) ==
  ProductPath(s, p, h, Then(s, Many1(s, h, AlNum \cup {"%", "-"}), "/"))
AMAZON_REGEX(s, p, q) == ProductName(s, p, AmazonDomain(s, q))

\* (?P<domain>...amazon.../s)(?P<keyword>\?k=[a-zA-Z0-9%+-]+)(?:...)*
Keyword(s, p, h, i) == M(Params(s, i), p, h, h, i)
SearchPath(s, p, h) ==
  Keyword(s, p, h, Many1(s, Then(s, h, "?k="), AlNum \cup {"%", "+", "-"}))
AMAZON_SEARCH_REGEX(s, p, q) == SearchPath(s, p, Then(s, AmazonDomain(s, q), "s"))

\* (?P<path>/[a-zA-Z0-9_]+/status/[0-9]+)\??(?:...)* of the two twitter
\* patterns, the group starting at h.
StatusPath(s, h) ==
  GroupThenTail(s, h, Many1(s, Then(s, Many1(s, Then(s, h, "/"), AlNum \cup {"_"}),
                                    "/status/"), Digit))

\* (www|c\.)?(vx)?twitter\.com(?P<path>/[a-zA-Z0-9_]+/status/[0-9]+)\??(?:...)*
TWITTER_REGEX(s, p, q) ==
  StatusPath(s, Lit(s, Opt(s, OrElse(Alt(s, q, "www", "c."), q), "vx"), "twitter.com"))

\* (www\.)?(fixup)?x\.com(?P<path>/[a-zA-Z0-9_]+/status/[0-9]+)\??(?:...)*
TWITTER_X_REGEX(s, p, q) ==
  StatusPath(s, Lit(s, Opt(s, Opt(s, q, "www."), "fixup"), "x.com"))

\* mp\.weixin\.qq\.com/s\??(?:...)*
WEIXIN_REGEX(s, p, q) == UrlThenTail(s, p, Lit(s, q, "mp.weixin.qq.com/s"))

\* (?P<url>item\.(m\.)?jd\.com/product/[0-9]+\.html)\??(?:...)*
JD_REGEX(s, p, q) ==
  UrlThenTail(s, p, Then(s, Many1(s, Lit(s, Opt(s, Lit(s, q, "item."), "m."),
                                         "jd.com/product/"), Digit), ".html"))

\* (t\.co/[0-9a-zA-Z]+/?)\??(?:...)*
TWITTER_SHORT_REGEX(s, p, q) ==
  UrlThenTail(s, p, Opt(s, Many1(s, Lit(s, q, "t.co/"), AlNum), "/"))

\* ((vm|vt|www)\.tiktok\.com/(t/)?[0-9a-zA-Z]+/?)\??(?:...)*
\* (t/)? is tried taken first; when [0-9a-zA-Z]+ cannot follow it, the match
\* backtracks and reads the "t" as the first character of the id.
ShareId(s, h) == OrElse(Many1(s, Then(s, h, "t/"), AlNum), Many1(s, h, AlNum))
TIKTOK_SHARE_REGEX(s, p, q) ==
  UrlThenTail(s, p, Opt(s, ShareId(s, Then(s, OrElse(Alt(s, q, "vm", "vt"),
                                                     Lit(s, q, "www")),
                                           ".tiktok.com/")), "/"))

\* The pattern of each rule, by the rule's name.
Regex(rule, s, p, q) ==
  CASE rule = "bshort" -> BSHORT_REGEX(s, p, q)
    [] rule = "twitter_short" -> TWITTER_SHORT_REGEX(s, p, q)
    [] rule = "tiktok_share" -> TIKTOK_SHARE_REGEX(s, p, q)
    [] rule = "youtube" -> YOUTUBE_REGEX(s, p, q)
    [] rule = "btrack" -> BVIDEO_REGEX(s, p, q)
    [] rule = "barticle" -> BARTICLE_REGEX(s, p, q)
    [] rule = "bopus" -> BOPUS_REGEX(s, p, q)
    [] rule = "twitter" -> TWITTER_REGEX(s, p, q)
    [] rule = "twitter_x" -> TWITTER_X_REGEX(s, p, q)
    [] rule = "amazon" -> AMAZON_REGEX(s, p, q)
    [] rule = "amazon_search" -> AMAZON_SEARCH_REGEX(s, p, q)
    [] rule = "weixin" -> WEIXIN_REGEX(s, p, q)
    [] rule = "jd" -> JD_REGEX(s, p, q)

\* The positions where the prefix group of a rule's pattern can end for a
\* match starting at p, in the order they are tried.  The prefix group of
\* BSHORT_REGEX is optional, (...)?: when no alternative of it leads to a
\* match, the rest is tried at p with no condition on what precedes it.
Starts(rule, s, p) ==
  IF rule = "bshort" THEN Prefix(s, p) \o <<p>> ELSE Prefix(s, p)

\* The match of a rule's pattern starting at p: the first of the prefix
\* alternatives from which the rest of the pattern matches.
Attempts(rule, s, p, qs) == [i \in 1..Len(qs) |-> Regex(rule, s, p, qs[i])]
Match(rule, s, p) == Pick(Attempts(rule, s, p, Starts(rule, s, p)))

\* Regex::find_iter from position pos: the non-overlapping matches, leftmost
\* first, each search resuming where the previous match ended.  A match is
\* [st, m]: its start and the match record.
RECURSIVE FindFrom(_, _, _)
FindNext(at, n, st) ==
  IF st > n THEN <<>> ELSE <<[st |-> st, m |-> at[st]]>> \o FindFrom(at, n, at[st].e)
FindFrom(at, n, pos) ==
  FindNext(at, n, CHOOSE q \in pos..(n + 1) :
                    /\ q = n + 1 \/ at[q].e # 0
                    /\ \A r \in pos..(q - 1) : at[r].e = 0)
FindIter(rule, s, pos) ==
  FindFrom([q \in 1..Len(s) |-> Match(rule, s, q)], Len(s), pos)

\* Match::as_str.
AsStr(s, x) == SubSeq(s, x.st, x.m.e - 1)

----------------------------------------------------------------------------
(* The url crate: Url::from_str, Url::to_string, set_query, and the          *)
(* form_urlencoded parser and serializer behind query_pairs.  Modelled for   *)
(* the characters the texts of this model are made of: letters, digits,     *)
(* space and : / . ? = & # % + - _ @                                        *)

\* s from position p on.
From(s, p) == IF p > Len(s) THEN "" ELSE SubSeq(s, p, Len(s))

\* The parser strips leading and trailing spaces from its input.
Trim(s) ==
  IF Many(s, 1, {" "}) > Len(s) THEN ""
  ELSE SubSeq(s, Many(s, 1, {" "}),
              CHOOSE e \in 1..Len(s) :
                /\ Ch(s, e) # " "
                /\ \A r \in (e + 1)..Len(s) : Ch(s, r) = " ")

\* The bytes the model's characters are escaped to and from: %XX <-> character.
\* Letters and digits are never escaped by the serializer.
HexCodes == {<<"20", " ">>, <<"23", "#">>, <<"25", "%">>, <<"26", "&">>,
             <<"2B", "+">>, <<"2F", "/">>, <<"3A", ":">>, <<"3D", "=">>,
             <<"3F", "?">>, <<"40", "@">>}
HexUpper(h) ==
  CASE h = "2b" -> "2B" [] h = "2f" -> "2F" [] h = "3a" -> "3A"
    [] h = "3d" -> "3D" [] h = "3f" -> "3F" [] OTHER -> h
IsCode(h) == \E c \in HexCodes : c[1] = HexUpper(h)
CharOf(h) == (CHOOSE c \in HexCodes : c[1] = HexUpper(h))[2]
CodeOf(ch) == (CHOOSE c \in HexCodes : c[2] = ch)[1]

\* What the character at position i of an encoded string decodes to: an
\* escape %XX starts at i when two hex digits follow the '%' (a '%' is no
\* hex digit, so escapes never overlap); its two digits decode to nothing.
IsEscape(s, i) == Ch(s, i) = "%" /\ i + 2 <= Len(s) /\ IsCode(SubSeq(s, i + 1, i + 2))
DecodeAt(s, i) ==
  IF IsEscape(s, i) THEN CharOf(SubSeq(s, i + 1, i + 2))
  ELSE IF (i > 1 /\ IsEscape(s, i - 1)) \/ (i > 2 /\ IsEscape(s, i - 2)) THEN ""
  ELSE IF Ch(s, i) = "+" THEN " "
  ELSE Ch(s, i)

\* What byte_serialize writes for the character at position i.
EncodeAt(s, i) ==
  IF Ch(s, i) \in AlNum \cup {"*", "-", ".", "_"} THEN Ch(s, i)
  ELSE IF Ch(s, i) = " " THEN "+"
  ELSE "%" \o CodeOf(Ch(s, i))

\* The characters s[lo..hi], each replaced by F of its position.
RECURSIVE MapRange(_, _, _, _)
MapRange(s, lo, hi, kind) ==
  IF lo > hi THEN ""
  ELSE IF lo = hi THEN
    CASE kind = "percent" -> (IF Ch(s, lo) = " " THEN "%20" ELSE Ch(s, lo))
      [] kind = "decode" -> DecodeAt(s, lo)
      [] kind = "encode" -> EncodeAt(s, lo)
  ELSE MapRange(s, lo, (lo + hi) \div 2, kind)
       \o MapRange(s, (lo + hi) \div 2 + 1, hi, kind)

\* The path, query and fragment percent-encode sets: of the model's
\* characters only the space is in them.
PercentEncode(s) == MapRange(s, 1, Len(s), "percent")

\* A parsed Url; query and fragment are Option<&str>.
NoUrl == [ok |-> FALSE]

\* Url::from_str.  A string with no scheme is a relative URL without a base:
\* an error.  Every string parsed here has its host followed by '/'.
UrlParse(str) ==
  LET t == Trim(str)
      a == Scheme(t, 1)
      h == Find(t, a, {"/", "?", "#"})
      q == Find(t, h, {"?", "#"})
      f == Find(t, q, {"#"})
  IN IF a = 0 \/ h = a \/ \E i \in a..(h - 1) : Ch(t, i) = " "
     THEN NoUrl
     ELSE [ok |-> TRUE,
           scheme |-> SubSeq(t, 1, a - 1),
           host |-> SubSeq(t, a, h - 1),
           path |-> IF q = h THEN "/"
                    ELSE PercentEncode(SubSeq(t, h, q - 1)),
           hasQuery |-> Ch(t, q) = "?",
           query |-> IF Ch(t, q) = "?"
                     THEN PercentEncode(SubSeq(t, q + 1, f - 1)) ELSE "",
           hasFragment |-> Ch(t, f) = "#",
           fragment |-> PercentEncode(From(t, f + 1))]

\* Url::to_string.
UrlToString(u) ==
  u.scheme \o u.host \o u.path
  \o (IF u.hasQuery THEN "?" \o u.query ELSE "")
  \o (IF u.hasFragment THEN "#" \o u.fragment ELSE "")

\* Url::set_query(None).
ClearQuery(u) == [u EXCEPT !.hasQuery = FALSE, !.query = ""]

\* form_urlencoded's decode: '+' is a space, %XX is the byte XX, and a '%'
\* that no two hex digits follow stands for itself.
FormDecode(s) == MapRange(s, 1, Len(s), "decode")

\* form_urlencoded::byte_serialize.
FormEncode(s) == MapRange(s, 1, Len(s), "encode")

\* form_urlencoded::parse: the query is split at '&', empty pieces are
\* skipped, each piece is split at its first '=' and both halves are decoded.
RECURSIVE FormParse(_)
FormParse(q) ==
  IF q = "" THEN <<>>
  ELSE LET a == Find(q, 1, {"&"})
           seg == SubSeq(q, 1, a - 1)
           e == Find(seg, 1, {"="})
       IN (IF seg = "" THEN <<>>
           ELSE <<[k |-> FormDecode(SubSeq(seg, 1, e - 1)),
                   v |-> FormDecode(From(seg, e + 1))]>>)
          \o FormParse(From(q, a + 1))

\* Url::query_pairs.
QueryPairs(u) == IF u.hasQuery THEN FormParse(u.query) ELSE <<>>

\* Serializer::append_pair for each pair in turn, then finish.
RECURSIVE FormSerialize(_)
FormSerialize(pairs) ==
  IF pairs = <<>> THEN ""
  ELSE FormEncode(pairs[1].k) \o "=" \o FormEncode(pairs[1].v)
       \o (IF Len(pairs) > 1 THEN "&" ELSE "") \o FormSerialize(Tail(pairs))

\* Url::set_query(match query { "" => None, query => Some(query) }).
SetQuery(u, query) == [u EXCEPT !.hasQuery = query # "", !.query = query]

\* RemovePairsIf::remove_pairs_if_key for Url; `removed` is the set of keys
\* the predicate holds for.
remove_pairs_if_key(u, removed) ==
  SetQuery(u, FormSerialize(SelectSeq(QueryPairs(u), LAMBDA pr : pr.k \notin removed)))

\* The keys of the query pairs of u.
Keys(u) == {QueryPairs(u)[i].k : i \in 1..Len(QueryPairs(u))}

\* keep_pairs_only_in with the `!` of its closure missing.
keep_pairs_not_in(u, vec) == remove_pairs_if_key(u, {k \in Keys(u) : k \in vec})

\* RemovePairsIf::keep_pairs_only_in.
keep_pairs_only_in(u, vec) ==
  remove_pairs_if_key(u, {k \in Keys(u) : ~(k \in vec)})

trim_youtube_link(u) == keep_pairs_only_in(u, {"v", "list", "index", "t"})

trim_bili_link(u) == keep_pairs_only_in(u, {"p", "t"})

----------------------------------------------------------------------------
(* The shared client and get_redirect_url.  A network n maps a URL to the    *)
(* server's answer: [kind |-> "redirect", loc |-> target], [kind |-> "fail"] *)
(* (the request itself fails) or, for every URL n does not list, a response  *)
(* that is no redirect.                                                      *)

Respond(n, url) == IF url \in DOMAIN n THEN n[url] ELSE [kind |-> "ok"]

\* The redirect policy of CLIENT_REDIRECT_ONCE: `previous` is the list of
\* URLs already requested when a redirect response arrives.
\* The policy with its limit off by one: a second redirect is followed too.
CLIENT_REDIRECT_TWICE(previous) == IF Len(previous) > 2 THEN "stop" ELSE "follow"

CLIENT_REDIRECT_ONCE(previous) == IF Len(previous) > 1 THEN "stop" ELSE "follow"

\* Client::get(url).send(): request url; on a redirect response add url to
\* `previous` and ask the policy; on "stop" the redirect response itself is
\* returned.  `sent` collects the URLs requested.
RECURSIVE Send(_, _, _, _)
Answered(n, url, previous, sent, r) ==
  IF r.kind = "fail" THEN [ok |-> FALSE, url |-> NoUrl, sent |-> sent]
  ELSE IF r.kind = "redirect" /\ CLIENT_REDIRECT_ONCE(previous) = "follow"
       THEN Send(n, r.loc, previous, sent)
  ELSE [ok |-> TRUE, url |-> UrlParse(url), sent |-> sent]
Send(n, url, previous, sent) ==
  Answered(n, url, Append(previous, url), Append(sent, url), Respond(n, url))

\* get_redirect_url: a string that is no absolute URL makes send() fail before
\* any request; otherwise resp.url() of the response send() returns.
Requested(n, u) ==
  IF ~u.ok THEN [ok |-> FALSE, url |-> NoUrl, sent |-> <<>>]
  ELSE Send(n, UrlToString(u), <<>>, <<>>)
get_redirect_url(n, url) == Requested(n, UrlParse(url))

----------------------------------------------------------------------------
(* The rules.  A rule's outcome is [st, s, reqs]: st is "ok" (s is the text  *)
(* it returns), "err" (it returned Err) or "panic"; reqs has one entry per   *)
(* call of get_redirect_url: its argument, whether it returned Ok, the URL   *)
(* it returned and the requests the client sent for it.                      *)

Call(arg, got) ==
  [arg |-> arg, ok |-> got.ok, sent |-> got.sent,
   got |-> IF got.ok THEN UrlToString(got.url) ELSE ""]

Ok(s, rq) == [st |-> "ok", s |-> s, reqs |-> rq]
Err(rq) == [st |-> "err", s |-> "", reqs |-> rq]
Panic(rq) == [st |-> "panic", s |-> "", reqs |-> rq]

\* String::replace_range([st, en), with) panics when en is past the end of
\* the string; [ok |-> FALSE] stands for the panic.
replace_range(s, st, en, with) ==
  IF en > Len(s) + 1 \/ st > en THEN [ok |-> FALSE, s |-> s]
  ELSE [ok |-> TRUE, s |-> SubSeq(s, 1, st - 1) \o with \o From(s, en)]

\* What a resolve rule does to the resolved Url before it is spliced in.
AfterResolve(rule, u) ==
  CASE rule = "bshort" -> trim_bili_link(u)
    [] rule = "twitter_short" -> u
    [] rule = "tiktok_share" -> ClearQuery(u)

\* The loop of replace_bshort, replace_twitter_short and replace_tiktok_share
\* from its i-th iteration: `matches` were found in the argument str, the
\* replacements are made in new_str.  Resolved is the iteration once
\* get_redirect_url has returned `got` (the ? operator returns its Err),
\* Spliced the iteration once replace_range has run.
RECURSIVE ResolveEach(_, _, _, _, _, _, _)
Spliced(rule, n, str, matches, i, r, log) ==
  IF ~r.ok THEN Panic(log)
  ELSE ResolveEach(rule, n, str, matches, i + 1, r.s, log)
\* The iteration without the ? operator: a failed resolution is skipped.
ResolvedOrSkipped(rule, n, str, matches, i, new_str, log, got) ==
  IF ~got.ok THEN ResolveEach(rule, n, str, matches, i + 1, new_str, log)
  ELSE Spliced(rule, n, str, matches, i,
               replace_range(new_str, matches[i].st, matches[i].m.e,
                             UrlToString(AfterResolve(rule, got.url))),
               log)

Resolved(rule, n, str, matches, i, new_str, log, got) ==
  IF ~got.ok THEN Err(log)
  ELSE Spliced(rule, n, str, matches, i,
               replace_range(new_str, matches[i].st, matches[i].m.e,
                             UrlToString(AfterResolve(rule, got.url))),
               log)
Logged(rule, n, str, matches, i, new_str, rq, got) ==
  Resolved(rule, n, str, matches, i, new_str,
           Append(rq, Call(AsStr(str, matches[i]), got)), got)
ResolveEach(rule, n, str, matches, i, new_str, rq) ==
  IF i > Len(matches) THEN Ok(new_str, rq)
  ELSE Logged(rule, n, str, matches, i, new_str, rq,
              get_redirect_url(n, AsStr(str, matches[i])))

\* The allow-list of an allow-list rule.
KEYS(rule) ==
  CASE rule = "youtube" -> {"v", "list", "index", "t"}
    [] rule = "btrack" -> {"p", "t"}
    [] rule = "weixin" -> {"__biz", "mid", "idx", "sn"}

\* The first loop of replace_youtube and replace_btrack from the i-th match:
\* the vector `replaces` of (range, string), a match that is no URL skipped.
Replacement(rule, x, url) ==
  IF ~url.ok THEN <<>>
  ELSE <<[st |-> x.st, en |-> x.m.e,
          str |-> UrlToString(keep_pairs_only_in(url, KEYS(rule)))]>>
RECURSIVE Replaces(_, _, _, _)
Replaces(rule, text, matches, i) ==
  IF i > Len(matches) THEN <<>>
  ELSE Replacement(rule, matches[i], UrlParse(AsStr(text, matches[i])))
       \o Replaces(rule, text, matches, i + 1)

\* The second loop: each range, found in the text as it was, is replaced in
\* the text as it is now.
RECURSIVE ApplyReplaces(_, _, _)
Replaced(replaces, i, r) ==
  IF ~r.ok THEN Panic(<<>>) ELSE ApplyReplaces(r.s, replaces, i + 1)
ApplyReplaces(text, replaces, i) ==
  IF i > Len(replaces) THEN Ok(text, <<>>)
  ELSE Replaced(replaces, i,
                replace_range(text, replaces[i].st, replaces[i].en, replaces[i].str))

\* The replacement template of a template rule, expanded for the match m.
Expand(rule, s, m) ==
  CASE rule = "barticle" -> "https://www.bilibili.com/read/cv" \o SubSeq(s, m.a, m.b - 1)
    [] rule = "bopus" -> "https://t.bilibili.com/" \o SubSeq(s, m.a, m.b - 1)
    [] rule = "twitter" -> "https://fixupx.com" \o SubSeq(s, m.a, m.b - 1)
    [] rule = "twitter_x" -> "https://fixupx.com" \o SubSeq(s, m.a, m.b - 1)
    [] rule = "amazon" -> SubSeq(s, m.a, m.b - 1) \o SubSeq(s, m.c, m.d - 1)
    [] rule = "amazon_search" -> SubSeq(s, m.a, m.b - 1) \o SubSeq(s, m.c, m.d - 1)
    [] rule = "jd" -> SubSeq(s, m.a, m.b - 1)

\* Regex::replacen: the text from pos with the matches i.. replaced by their
\* expansions, the text between the matches copied.
RECURSIVE Substitute(_, _, _, _, _)
Substitute(rule, s, matches, i, pos) ==
  IF i > Len(matches) THEN From(s, pos)
  ELSE SubSeq(s, pos, matches[i].st - 1) \o Expand(rule, s, matches[i].m)
       \o Substitute(rule, s, matches, i + 1, matches[i].m.e)

\* Regex::replace_all, given the matches find_iter yields in s.
RegexReplaceAll(rule, s, matches) == Substitute(rule, s, matches, 1, 1)

\* Regex::replace: the first match only.
RegexReplace(rule, s, matches) ==
  Substitute(rule, s, IF matches = <<>> THEN matches ELSE <<matches[1]>>, 1, 1)

\* The rules with the embed-proxy rules moved in front of the resolvers.
RulesProxyFirst == <<"twitter", "twitter_x", "bshort", "twitter_short",
                     "tiktok_share", "youtube", "btrack", "barticle", "bopus",
                     "amazon", "amazon_search", "weixin", "jd">>

\* The rules in the order replace_all runs them.
Rules == <<"bshort", "twitter_short", "tiktok_share", "youtube", "btrack",
           "barticle", "bopus", "twitter", "twitter_x", "amazon",
           "amazon_search", "weixin", "jd">>

\* The body of a rule's function, `matches` being what its pattern's
\* find_iter yields in s.  replace_weixin makes each replacement as soon as
\* it has parsed the match, with the range found in the text as it was: the
\* same sequence of replace_range calls as the two loops of replace_youtube.
Rewrite(rule, n, s, matches) ==
  CASE rule \in {"bshort", "twitter_short", "tiktok_share"} ->
         ResolveEach(rule, n, s, matches, 1, s, <<>>)
    [] rule \in {"youtube", "btrack", "weixin"} ->
         ApplyReplaces(s, Replaces(rule, s, matches, 1), 1)
    [] rule \in {"twitter", "twitter_x"} ->
         Ok(RegexReplace(rule, s, matches), <<>>)
    [] rule \in {"barticle", "bopus", "amazon", "amazon_search", "jd"} ->
         Ok(RegexReplaceAll(rule, s, matches), <<>>)

\* One rule applied to the text s.
Apply(rule, n, s) == Rewrite(rule, n, s, FindIter(rule, s, 1))

replace_bshort(n, str) == Apply("bshort", n, str)

replace_twitter_short(n, str) == Apply("twitter_short", n, str)

replace_tiktok_share(n, str) == Apply("tiktok_share", n, str)

replace_youtube(text) == Apply("youtube", <<>>, text)

replace_btrack(text) == Apply("btrack", <<>>, text)

replace_weixin(text) == Apply("weixin", <<>>, text)

replace_twitter(url) == Apply("twitter", <<>>, url).s

replace_twitter_x(url) == Apply("twitter_x", <<>>, url).s

replace_jd(url) == Apply("jd", <<>>, url).s

replace_amazon(url) == Apply("amazon", <<>>, url).s

replace_amazon_search(url) == Apply("amazon_search", <<>>, url).s

replace_barticle(str) == Apply("barticle", <<>>, str).s

replace_bopus(str) == Apply("bopus", <<>>, str).s

\* replace_all from its i-th rule on, `text` being the local `new`: an Err
\* (the ? operator) or a panic ends the call.  Ran is the step once the i-th
\* rule has returned r.
RECURSIVE ReplaceFrom(_, _, _, _)
Ran(n, i, rq, r) ==
  IF r.st # "ok" THEN [r EXCEPT !.reqs = rq \o r.reqs]
  ELSE ReplaceFrom(n, r.s, i + 1, rq \o r.reqs)
ReplaceFrom(n, text, i, rq) ==
  IF i > Len(Rules) THEN Ok(text, rq) ELSE Ran(n, i, rq, Apply(Rules[i], n, text))

replace_all(n, text) == ReplaceFrom(n, text, 1, <<>>)

----------------------------------------------------------------------------
(* The qrcode crate, as replace_qrcode uses it.                              *)

\* The data capacity in bytes of versions 1..5 at error correction level L
\* (byte mode).  The payloads of this model fit version 5.
CapacityL == <<17, 32, 53, 78, 106>>

\* QrCode::with_error_correction_level: the smallest version that holds the
\* data; a symbol of version v is 17 + 4v modules wide.
ModulesCount(data) ==
  17 + 4 * (CHOOSE v \in 1..Len(CapacityL) :
              /\ Len(data) <= CapacityL[v]
              /\ \A w \in 1..(v - 1) : Len(data) > CapacityL[w])

Max(a, b) == IF a >= b THEN a ELSE b

\* `(x as f64 * 1.1) as u32` and `(x as f64 * 0.9) as u32` for an i64 x: the
\* cast truncates, and saturates to 0 for a negative x.
Times11(x) == (11 * x) \div 10
Times09(x) == (9 * x) \div 10

\* Renderer::module_dimensions, max_dimensions and min_dimensions with the
\* quiet zone off: each sets module_size, so the later call decides.
module_dimensions(r, width, height) ==
  [r EXCEPT !.module_size = <<Max(width, 1), Max(height, 1)>>]
max_dimensions(r, width, height) ==
  module_dimensions(r, width \div r.modules_count, height \div r.modules_count)
min_dimensions(r, width, height) ==
  module_dimensions(r, (width + r.modules_count - 1) \div r.modules_count,
                       (height + r.modules_count - 1) \div r.modules_count)

\* Renderer::build: the image's width and height in pixels.
Build(r) == [w |-> r.modules_count * r.module_size[1],
             h |-> r.modules_count * r.module_size[2]]

\* The render chain of replace_qrcode for a symbol of n modules.
Render(n, width, height) ==
  Build(min_dimensions(
          max_dimensions([modules_count |-> n, module_size |-> <<8, 8>>],
                         Times11(width), Times11(height)),
          Times09(width), Times09(height)))

\* The measured width and height of a grid.
Width(grid) == grid.bounds[2].x - grid.bounds[1].x
Height(grid) == grid.bounds[4].y - grid.bounds[1].y

\* The loop without its `continue`: no payload counts as unchanged.
NeverSame(replaced, content) == FALSE

\* `if replaced == content { continue; }`
Same(replaced, content) == replaced = content

\* The symbol rendered for `replaced`, where it is laid over the image, and
\* the measured size of the grid it covers.
Overlay(grid, replaced, qrimg) ==
  [x |-> grid.bounds[1].x - 5, y |-> grid.bounds[1].y - 5,
   w |-> qrimg.w, h |-> qrimg.h,
   width |-> Width(grid), height |-> Height(grid), url |-> replaced]
Encoded(grid, replaced) ==
  Overlay(grid, replaced, Render(ModulesCount(replaced), Width(grid), Height(grid)))

\* What replace_qrcode returns after the loop.
Returned(cnt) == IF cnt = 0 THEN "none" ELSE "some"

----------------------------------------------------------------------------
(* replace_qrcode as one call, and the update handler of src/src/event.rs.   *)

\* Option: None, Some(x).
None == <<>>
Some(x) == <<x>>

\* replace_qrcode(image) as try_replace_photo calls it: Ok(None), or
\* Ok(Some((new_img, urls))) with the urls, or the Err (or panic) of a grid.
\* `found` is the local `urls`; replaced_cnt is its length.
RECURSIVE QrLoop(_, _, _, _)
QrReplaced(n, img, i, found, r) ==
  IF r.st # "ok" THEN [st |-> r.st, urls |-> None]
  ELSE QrLoop(n, img, i + 1,
              IF Same(r.s, img[i].content) THEN found ELSE Append(found, r.s))
QrLoop(n, img, i, found) ==
  IF i > Len(img)
  THEN [st |-> "ok",
        urls |-> IF Returned(Len(found)) = "none" THEN None ELSE Some(found)]
  ELSE QrReplaced(n, img, i, found,
                  IF img[i].decodes THEN replace_all(n, img[i].content)
                  ELSE Err(<<>>))
replace_qrcode(n, img) ==
  IF img = <<>> THEN [st |-> "ok", urls |-> None] ELSE QrLoop(n, img, 1, <<>>)

\* A request to the Bot API and whether it was answered with success.
Request(op, ok) == [op |-> op, ok |-> ok]

\* try_replace_photo(api, config, meta): a photo over 1 MiB (or of unknown
\* size) is left alone; get_file, the download and replace_qrcode return
\* their Err with `?`.  The result is [st, image, calls], image the Option
\* of the rewritten file's urls.
Fetched(r) ==
  [st |-> r.st, image |-> r.urls, calls |-> <<Request("get_file", TRUE)>>]
try_replace_photo(n, a, meta) ==
  IF ~meta.small THEN [st |-> "ok", image |-> None, calls |-> <<>>]
  ELSE IF ~a.get_file
  THEN [st |-> "err", image |-> None, calls |-> <<Request("get_file", FALSE)>>]
  ELSE IF ~a.download
  THEN [st |-> "err", image |-> None, calls |-> <<Request("get_file", TRUE)>>]
  ELSE Fetched(replace_qrcode(n, meta.img))

\* str::contains
Contains(s, sub) == \E i \in 1..Len(s) : Lit(s, i, sub) # 0

\* `if replaced != text { Some(replaced) } else { None }`, and the same with
\* the comparison left out.
AlwaysChanged(replaced, text) == Some(replaced)
IfChanged(replaced, text) == IF replaced # text THEN Some(replaced) ELSE None

\* Where process_update stands after the send request: `?` returns the Err
\* of a failed send; and the same without the `?`.
AfterSendAnyway(ok) == "delete"
AfterSend(ok) == IF ok THEN "delete" ELSE "send"

----------------------------------------------------------------------------
(* The inputs of the model.                                                  *)

\* Two networks.  In NetUp, t.co/b starts a chain of two redirects.
Redirect(loc) == [kind |-> "redirect", loc |-> loc]
Hosts == {"https://b23.tv/a", "https://t.co/b", "https://t.co/c",
          "https://vm.tiktok.com/Z1/"}
NetUp ==
  [u \in Hosts |->
     CASE u = "https://b23.tv/a" ->
            Redirect("https://www.bilibili.com/video/BV1/?t=9&spm=2")
       [] u = "https://t.co/b" -> Redirect("https://b23.tv/a")
       [] u = "https://t.co/c" -> Redirect("https://twitter.com/u/status/1?s=20")
       [] u = "https://vm.tiktok.com/Z1/" ->
            Redirect("https://www.tiktok.com/@u/video/7?_r=1")]
NetDown ==
  [u \in Hosts |->
     CASE u = "https://b23.tv/a" -> Redirect("https://www.bilibili.com/video/BV2")
       [] u = "https://t.co/b" -> [kind |-> "fail"]
       [] u = "https://t.co/c" -> Redirect("https://x.com/u/status/1?s=20")
       [] u = "https://vm.tiktok.com/Z1/" -> Redirect("https://youtu.be/a?v=1&si=2")]
Nets == {NetUp, NetDown}

\* The pieces texts are made of, and the texts: up to MaxUrls pieces, one
\* space between two pieces.
Pieces == {"https://b23.tv/a", "b23.tv/a", "xb23.tv/a", "https://t.co/b",
           "https://vm.tiktok.com/Z1/", "https://youtu.be/a?v=1&si=2&",
           "https://twitter.com/u/status/1", "fake-bilibili.com/read/mobile/1",
           "hello", "https://t.co/c",
           "https://www.bilibili.com/read/mobile/1?x=1"}
MaxUrls == 2
RECURSIVE Join(_, _)
Join(ps, sep) ==
  IF ps = <<>> THEN ""
  ELSE IF Len(ps) = 1 THEN ps[1] ELSE ps[1] \o sep \o Join(Tail(ps), sep)
PennyUrl ==
  "https://fixupx.com/Penny_0571/status/1587323246506528769?s=20&t=0Mzx3uLKTD-kygDQmaXvFq"
Texts ==
  {Join(ps, " ") : ps \in UNION {[1..k -> Pieces] : k \in 1..MaxUrls}} \cup {PennyUrl}

\* The grids of an image: a square symbol of side d with its top left corner
\* at (10, 10), whose data decodes to `content` or fails to decode.
Bounds(d) == <<[x |-> 10, y |-> 10], [x |-> 10 + d, y |-> 10],
               [x |-> 10 + d, y |-> 10 + d], [x |-> 10, y |-> 10 + d]>>
Grids ==
  {[bounds |-> Bounds(d), decodes |-> TRUE, content |-> c] :
     d \in {60, 100},
     c \in {"hello", "https://twitter.com/u/status/1", "https://b23.tv/a"}}
  \cup {[bounds |-> Bounds(60), decodes |-> FALSE, content |-> ""]}
MaxGrids == 2
Images == UNION {[1..k -> Grids] : k \in 0..MaxGrids}

\* The URLs and allow-lists keep_pairs_only_in is applied to: a query of up
\* to MaxPairs segments joined by '&', with and without a fragment.
Segments == {"v=1", "t=a+b", "si=2", "v=%3D", "x"}
MaxPairs == 3
Queries ==
  {""} \cup {"?" \o Join(qs, "&") : qs \in UNION {[1..k -> Segments] : k \in 0..MaxPairs}}
KeepUrls == {"https://h.co/p" \o q \o f : q \in Queries, f \in {"", "#f"}}
KeepSets == {{"v", "t"}, {"si"}, {}}

\* The updates process_update is called with.  gate says which of the early
\* returns applies: "other" is an update that is no message, "old" a
\* message older than the start, "disabled" a chat that is not enabled.
\* photo is the Option of the largest PhotoSize, text that of the message
\* text, origin the kind of forward_origin ("none" without one).
Metas ==
  {[small |-> FALSE, img |-> <<>>]}
  \cup {[small |-> TRUE, img |-> img] :
          img \in {<<>>} \cup {<<g>> : g \in {h \in Grids : h.bounds = Bounds(60)}}}
UpdateTexts == {"hello", "https://twitter.com/u/status/1", "https://t.co/b",
                "@ignoreme https://twitter.com/u/status/1",
                "https://youtube.com/watch?v=1&si=2& https://youtube.com/watch"}
Origins == {"none", "user", "hidden_user", "chat", "channel"}
NoMsg == [gate |-> "", photo |-> None, text |-> None, origin |-> "none"]
Msgs ==
  {[gate |-> g, photo |-> None, text |-> Some("https://twitter.com/u/status/1"),
    origin |-> "none"] : g \in {"other", "old", "disabled"}}
  \cup {[gate |-> "ok", photo |-> ph, text |-> t, origin |-> o] :
          ph \in {None} \cup {Some(m) : m \in Metas},
          t \in {None} \cup {Some(x) : x \in UpdateTexts},
          o \in Origins}
AllUp == [get_file |-> TRUE, download |-> TRUE, send |-> TRUE, delete |-> TRUE]
Apis == [get_file : BOOLEAN, download : BOOLEAN, send : BOOLEAN, delete : BOOLEAN]

----------------------------------------------------------------------------
(* The state machine: one call of replace_all, of replace_qrcode, of         *)
(* keep_pairs_only_in or of process_update at a time; replace_all one rule  *)
(* per step, replace_qrcode one grid per step, process_update one phase     *)
(* (photo, text, send, delete) per step.                                    *)

Init ==
  /\ net \in Nets
  /\ pc = "idle"
  /\ input = "" /\ new = "" /\ before = "" /\ stage = 0
  /\ status = "" /\ reqs = <<>> /\ prev = <<>>
  /\ image = <<>> /\ gi = 0 /\ replaced_cnt = 0
  /\ urls = <<>> /\ overlays = <<>> /\ qres = ""
  /\ kurl = "" /\ kkeys = {} /\ kout = ""
  /\ msg = NoMsg /\ api = AllUp /\ step = "" /\ calls = <<>>
  /\ replaced_image = None /\ changed_text = None

qrVars == <<image, gi, replaced_cnt, urls, overlays, qres>>
textVars == <<input, new, before, stage, reqs, prev>>
keepVars == <<kurl, kkeys, kout>>
updateVars == <<msg, api, step, calls, replaced_image, changed_text>>

\* replace_all(text) is called: `let mut new = text.to_string()`.
CallReplaceAll ==
  /\ pc = "idle"
  /\ \E t \in Texts :
       /\ input' = t /\ new' = t /\ before' = t
  /\ pc' = "text" /\ stage' = 0 /\ status' = "run" /\ reqs' = <<>>
  /\ UNCHANGED <<net, prev, qrVars, keepVars, updateVars>>

\* The next rule of replace_all runs on `new`; after the last one the call
\* returns Ok(new); an Err or a panic of the rule ends the call, and `new`
\* is dropped.
RunRule ==
  /\ pc = "text" /\ status = "run" /\ stage < Len(Rules)
  /\ \E r \in {Apply(Rules[stage + 1], net, new)} :
       /\ new' = r.s
       /\ status' = IF r.st # "ok" THEN r.st
                     ELSE IF stage + 1 = Len(Rules) THEN "ok" ELSE "run"
       /\ reqs' = reqs \o r.reqs
  /\ before' = new
  /\ stage' = stage + 1
  /\ UNCHANGED <<net, pc, input, prev, qrVars, keepVars, updateVars>>

\* The caller passes the text replace_all returned to replace_all again.
Reapply ==
  /\ pc = "text" /\ status = "ok" /\ prev = <<>>
  /\ prev' = <<input, new>>
  /\ input' = new /\ before' = new
  /\ stage' = 0 /\ status' = "run" /\ reqs' = <<>>
  /\ UNCHANGED <<net, pc, new, qrVars, keepVars, updateVars>>

\* replace_qrcode(image) is called: no grid detected returns Ok(None).
CallReplaceQrcode ==
  /\ pc = "idle"
  /\ \E img \in Images :
       /\ image' = img
       /\ status' = IF img = <<>> THEN "ok" ELSE "run"
       /\ qres' = IF img = <<>> THEN Returned(0) ELSE ""
  /\ pc' = "qr" /\ gi' = 0 /\ replaced_cnt' = 0
  /\ urls' = <<>> /\ overlays' = <<>>
  /\ UNCHANGED <<net, textVars, keepVars, updateVars>>

\* One iteration of `for grid in grids`, and after the last one the return.
\* grid.decode()? and replace_all(..)? return their Err.
QrGrid ==
  /\ pc = "qr" /\ status = "run" /\ gi < Len(image)
  /\ \E grid \in {image[gi + 1]} :
     \E replaced \in {IF grid.decodes THEN replace_all(net, grid.content)
                      ELSE Err(<<>>)} :
     \E skip \in {replaced.st # "ok" \/ Same(replaced.s, grid.content)} :
     \E cnt \in {IF skip THEN replaced_cnt ELSE replaced_cnt + 1} :
       /\ urls' = IF skip THEN urls ELSE Append(urls, replaced.s)
       /\ overlays' = IF skip THEN overlays
                       ELSE Append(overlays, Encoded(grid, replaced.s))
       /\ replaced_cnt' = cnt
       /\ status' = IF replaced.st # "ok" THEN replaced.st
                     ELSE IF gi + 1 = Len(image) THEN "ok" ELSE "run"
       /\ qres' = IF replaced.st # "ok" \/ gi + 1 < Len(image) THEN ""
                   ELSE Returned(cnt)
  /\ gi' = gi + 1
  /\ UNCHANGED <<net, pc, image, textVars, keepVars, updateVars>>

\* keep_pairs_only_in(vec) is called on a Url.
CallKeepPairs ==
  /\ pc = "idle"
  /\ \E u \in KeepUrls, vec \in KeepSets :
       /\ kurl' = u /\ kkeys' = vec
       /\ kout' = UrlToString(keep_pairs_only_in(UrlParse(u), vec))
  /\ pc' = "keep"
  /\ UNCHANGED <<net, status, textVars, qrVars, updateVars>>

\* process_update(api, config, update) is called: the three early returns.
CallProcessUpdate ==
  /\ pc = "idle"
  /\ \E m \in Msgs, a \in Apis :
       /\ msg' = m /\ api' = a
       /\ step' = IF m.gate = "ok" THEN "photo" ELSE "end"
       /\ status' = IF m.gate = "ok" THEN "run" ELSE "ok"
  /\ pc' = "update" /\ calls' = <<>>
  /\ replaced_image' = None /\ changed_text' = None
  /\ UNCHANGED <<net, textVars, qrVars, keepVars>>

\* `if let Some(photos) = msg.photo`: try_replace_photo on the largest one;
\* its Err ends the call.
UpdatePhoto ==
  /\ pc = "update" /\ step = "photo" /\ status = "run"
  /\ \E r \in {IF msg.photo = None
               THEN [st |-> "ok", image |-> None, calls |-> <<>>]
               ELSE try_replace_photo(net, api, msg.photo[1])} :
       /\ replaced_image' = r.image
       /\ calls' = calls \o r.calls
       /\ status' = IF r.st = "ok" THEN "run" ELSE r.st
       /\ step' = IF r.st = "ok" THEN "text" ELSE "photo"
  /\ UNCHANGED <<net, pc, msg, api, changed_text, textVars, qrVars, keepVars>>

\* `let changed_text = ..`: a text with "@ignoreme" returns Ok, the Err of
\* replace_all ends the call; then the return when nothing changed.
UpdateText ==
  /\ pc = "update" /\ step = "text" /\ status = "run"
  /\ \E text \in {IF msg.text = None THEN "" ELSE msg.text[1]} :
     \E ignore \in {msg.text # None /\ Contains(text, "@ignoreme")} :
     \E r \in {IF msg.text = None \/ ignore THEN Ok(text, <<>>)
               ELSE replace_all(net, text)} :
     \E changed \in {IF msg.text = None \/ ignore \/ r.st # "ok" THEN None
                     ELSE IfChanged(r.s, text)} :
     \E st \in {IF ignore THEN "ok"
                ELSE IF r.st # "ok" THEN r.st
                ELSE IF changed = None /\ replaced_image = None THEN "ok"
                ELSE "run"} :
       /\ changed_text' = changed
       /\ status' = st
       /\ step' = IF st = "run" THEN "send" ELSE IF st = "ok" THEN "end" ELSE "text"
  /\ UNCHANGED <<net, pc, msg, api, calls, replaced_image, textVars, qrVars, keepVars>>

\* The message is composed and sent: a message forwarded from a chat or a
\* channel returns Ok before anything is sent; otherwise send_photo with the
\* rewritten image or send_message, whose Err ends the call.  The caption
\* itself is left out of the model.
UpdateSend ==
  /\ pc = "update" /\ step = "send" /\ status = "run"
  /\ IF msg.origin \in {"chat", "channel"}
     THEN /\ step' = "end" /\ status' = "ok"
          /\ UNCHANGED calls
     ELSE /\ calls' = Append(calls,
                Request(IF replaced_image # None THEN "send_photo"
                        ELSE "send_message", api.send))
          /\ step' = AfterSend(api.send)
          /\ status' = IF AfterSend(api.send) = "delete" THEN "run" ELSE "err"
  /\ UNCHANGED <<net, pc, msg, api, replaced_image, changed_text,
                 textVars, qrVars, keepVars>>

\* api.delete_message on the original message, and the return.
UpdateDelete ==
  /\ pc = "update" /\ step = "delete" /\ status = "run"
  /\ calls' = Append(calls, Request("delete_message", api.delete))
  /\ status' = IF api.delete THEN "ok" ELSE "err"
  /\ step' = IF api.delete THEN "end" ELSE "delete"
  /\ UNCHANGED <<net, pc, msg, api, replaced_image, changed_text,
                 textVars, qrVars, keepVars>>

Next ==
  \/ CallReplaceAll \/ RunRule \/ Reapply
  \/ CallReplaceQrcode \/ QrGrid
  \/ CallKeepPairs
  \/ CallProcessUpdate \/ UpdatePhoto \/ UpdateText \/ UpdateSend \/ UpdateDelete

Spec == Init /\ [][Next]_vars

----------------------------------------------------------------------------
(* The claims.                                                               *)

SpliceRules == {"bshort", "twitter_short", "tiktok_share", "youtube", "btrack", "weixin"}
ResolveRules == {"bshort", "twitter_short", "tiktok_share"}

\* The characters of a host name.
HostChars == AlNum \cup {"-", "."}

\* The rewritten form of the match x of a splice rule in the text s: the
\* resolved URL as the rule trims it, or the match with only the allowed
\* query keys; a match of an allow-list rule that is no URL stays as it is.
Form(rule, n, s, x) ==
  IF rule \in ResolveRules
  THEN UrlToString(AfterResolve(rule, get_redirect_url(n, AsStr(s, x)).url))
  ELSE IF UrlParse(AsStr(s, x)).ok
       THEN UrlToString(keep_pairs_only_in(UrlParse(AsStr(s, x)), KEYS(rule)))
       ELSE AsStr(s, x)

\* The text s from pos on with each of the matches i.. replaced by its own
\* rewritten form at its own span, everything between the spans copied.
RECURSIVE EachAtItsSpan(_, _, _, _, _, _)
EachAtItsSpan(rule, n, s, matches, i, pos) ==
  IF i > Len(matches) THEN From(s, pos)
  ELSE SubSeq(s, pos, matches[i].st - 1) \o Form(rule, n, s, matches[i])
       \o EachAtItsSpan(rule, n, s, matches, i + 1, matches[i].m.e)

\* C1: when a splice rule has run on a text with two or more matches and has
\* not returned Err, every match is replaced by its own rewritten form at
\* its own span and nothing outside the spans is altered.
C1_EachMatchAtItsSpan ==
  (/\ pc = "text" /\ stage >= 1 /\ Rules[stage] \in SpliceRules
   /\ status # "err"
   /\ Len(FindIter(Rules[stage], before, 1)) >= 2)
  => /\ status # "panic"
     /\ new = EachAtItsSpan(Rules[stage], net, before,
                            FindIter(Rules[stage], before, 1), 1, 1)

\* C2: a match of a rule begins only at the start of the text, at a scheme,
\* or after a character that is no host character; and the text
\* "fake-bilibili.com/read/mobile/1" comes out of replace_all unchanged with
\* no resolution made.
C2_NoMatchInsideLongerHost ==
  pc = "text" =>
    /\ stage >= 1 =>
         \A x \in {FindIter(Rules[stage], before, 1)[i] :
                     i \in 1..Len(FindIter(Rules[stage], before, 1))} :
           \/ x.st = 1
           \/ Scheme(before, x.st) # 0
           \/ Ch(before, x.st - 1) \notin HostChars
    /\ (input = "fake-bilibili.com/read/mobile/1" /\ status # "run")
         => status = "ok" /\ new = input /\ reqs = <<>>

\* C3: once a resolution has failed, replace_all has returned Err and no
\* text is handed to the caller.
C3_FailedResolutionFailsCall ==
  (pc = "text" /\ \E i \in DOMAIN reqs : ~reqs[i].ok)
  => status = "err" /\ new = ""

\* C3's case: a request failed after an earlier link of the same text had
\* been resolved.
C3_FailedAfterResolved ==
  /\ pc = "text" /\ status = "err" /\ Len(reqs) = 2
  /\ reqs[1].ok /\ ~reqs[2].ok /\ reqs[2].sent # <<>>
  /\ input = "https://b23.tv/a https://t.co/b"

\* C4: replace_all does not return Err when every resolution it attempted
\* either succeeded or was for a match that is no URL (such a match is
\* skipped).
C4_UnparseableMatchSkipped ==
  (pc = "text" /\ \A i \in DOMAIN reqs : reqs[i].ok \/ ~UrlParse(reqs[i].arg).ok)
  => status # "err"

\* C5: replace_all applied to the text a successful replace_all returned
\* succeeds and returns that text unchanged.
C5_Idempotent ==
  (pc = "text" /\ prev # <<>> /\ status # "run")
  => status = "ok" /\ new = input

\* C6: the query pairs after keep_pairs_only_in(vec) are the pairs of the
\* URL whose key is in vec, in their order; scheme, host, path and fragment
\* are as before; with no pair retained the URL has no '?'.
C6_KeepsExactlyAllowedPairs ==
  pc = "keep" =>
    /\ UrlParse(kout).ok
    /\ QueryPairs(UrlParse(kout))
         = SelectSeq(QueryPairs(UrlParse(kurl)), LAMBDA pr : pr.k \in kkeys)
    /\ UrlParse(kout).scheme = UrlParse(kurl).scheme
    /\ UrlParse(kout).host = UrlParse(kurl).host
    /\ UrlParse(kout).path = UrlParse(kurl).path
    /\ UrlParse(kout).hasFragment = UrlParse(kurl).hasFragment
    /\ UrlParse(kout).fragment = UrlParse(kurl).fragment
    /\ QueryPairs(UrlParse(kout)) = <<>>
         => \A i \in 1..Len(kout) : Ch(kout, i) # "?"

\* C6's case: of four pairs, one repeated key, two are retained and two
\* dropped, and the fragment stays.
C6_KeptTwoOfFour ==
  /\ pc = "keep" /\ kkeys = {"v", "t"}
  /\ kurl = "https://h.co/p?v=1&si=2&v=%3D#f"
  /\ kout = "https://h.co/p?v=1&v=%3D#f"

\* C7: every resolution sends at most two requests; when the first answer
\* is a redirect, the second request goes to its target, and that target is
\* what get_redirect_url returns, whatever the target answers.
C7_AtMostOneRedirectFollowed ==
  pc = "text" =>
    \A i \in DOMAIN reqs :
      /\ Len(reqs[i].sent) <= 2
      /\ (reqs[i].ok /\ Respond(net, reqs[i].sent[1]).kind = "redirect")
           => /\ reqs[i].sent
                   = <<reqs[i].sent[1], Respond(net, reqs[i].sent[1]).loc>>
              /\ reqs[i].got = Respond(net, reqs[i].sent[1]).loc
              /\ reqs[i].got # reqs[i].sent[1]

\* C7's case: the chain t.co/b -> b23.tv/a -> bilibili.com resolved to
\* b23.tv/a.
C7_StoppedAtFirstHop ==
  /\ pc = "text" /\ reqs # <<>>
  /\ reqs[1].arg = "https://t.co/b" /\ reqs[1].ok
  /\ Respond(net, "https://b23.tv/a").kind = "redirect"
  /\ reqs[1].got = "https://b23.tv/a"

\* The rewritten payloads of the grids i.. of img whose payload replace_all
\* changes, in detection order.
RECURSIVE Changed(_, _, _)
Rewritten(content, r) == IF r.s = content THEN <<>> ELSE <<r.s>>
Changed(n, img, i) ==
  IF i > Len(img) THEN <<>>
  ELSE Rewritten(img[i].content, replace_all(n, img[i].content))
       \o Changed(n, img, i + 1)

\* C8: a call of replace_qrcode that returns Ok returns None when no grid's
\* payload is changed by replace_all (no grid at all included) and draws no
\* overlay; otherwise it returns Some with `urls` the rewritten payloads of
\* the changed grids in detection order, one overlay for each.
C8_NoneOrRewrittenPayloads ==
  (pc = "qr" /\ status = "ok") =>
    /\ qres = (IF Changed(net, image, 1) = <<>> THEN "none" ELSE "some")
    /\ urls = Changed(net, image, 1)
    /\ replaced_cnt = Len(urls)
    /\ Len(overlays) = Len(urls)
    /\ \A i \in 1..Len(urls) : overlays[i].url = urls[i]

\* C8's case: of two grids the first is unchanged and the second rewritten.
C8_OneOfTwoReplaced ==
  /\ pc = "qr" /\ status = "ok" /\ Len(image) = 2
  /\ image[1].content = "hello"
  /\ qres = "some" /\ urls = <<"https://fixupx.com/u/status/1">>
  /\ Len(overlays) = 1

\* C9: every overlay's width is within [90%, 110%] of the measured width of
\* the grid it replaces, and its height of the measured height.
C9_RenderedWithinTenPercent ==
  pc = "qr" =>
    \A i \in DOMAIN overlays :
      /\ 10 * overlays[i].w >= 9 * overlays[i].width
      /\ 10 * overlays[i].w <= 11 * overlays[i].width
      /\ 10 * overlays[i].h >= 9 * overlays[i].height
      /\ 10 * overlays[i].h <= 11 * overlays[i].height

\* C10: replace_twitter and replace_all turn the fixupx.com status URL with
\* a query into the c.vxtwitter.com URL with the status path only.
C10_EmbedProxyHost ==
  (pc = "text" /\ input = PennyUrl /\ prev = <<>> /\ status # "run")
  => /\ status = "ok"
     /\ new = "https://c.vxtwitter.com/Penny_0571/status/1587323246506528769"
     /\ replace_twitter(input)
          = "https://c.vxtwitter.com/Penny_0571/status/1587323246506528769"

\* The requests of process_update that send the replacement, and the delete
\* requests, by their index in `calls`.
Sends == {i \in DOMAIN calls : calls[i].op \in {"send_photo", "send_message"}}
Deletes == {i \in DOMAIN calls : calls[i].op = "delete_message"}

\* C11: in process_update every delete request comes after a send request of
\* the same call that succeeded, and a call that failed while rewriting the
\* photo, rewriting the text or sending has issued no delete request.
C11_DeleteOnlyAfterSend ==
  pc = "update" =>
    /\ \A i \in Deletes : \E j \in Sends : j < i /\ calls[j].ok
    /\ (status \in {"err", "panic"} /\ step \in {"photo", "text", "send"})
         => Deletes = {}

\* C11's case: the photo was fetched and rewritten, the replacement was sent
\* and then the original message was deleted.
C11_SentThenDeleted ==
  /\ pc = "update" /\ status = "ok" /\ step = "end"
  /\ calls = <<Request("get_file", TRUE), Request("send_photo", TRUE),
               Request("delete_message", TRUE)>>

\* What replace_all returned, against the text of the message: the same
\* string, or there is no text.
TextKept(m, r) == m.text = None \/ (r.st = "ok" /\ r.s = m.text[1])
NoRuleMatches(s) == \A i \in DOMAIN Rules : FindIter(Rules[i], s, 1) = <<>>

\* C12: replace_all on a text in which no rule matches returns Ok with the
\* text itself and resolves nothing; and process_update, when the rewritten
\* text equals the message text and no image was replaced, issues no send
\* and no delete request.
C12_NothingToRewriteNoEffect ==
  /\ (pc = "text" /\ status # "run" /\ NoRuleMatches(input))
       => (status = "ok" /\ new = input /\ reqs = <<>>)
  /\ (pc = "update" /\ step \in {"send", "delete", "end"} /\ replaced_image = None
        /\ TextKept(msg, replace_all(net, IF msg.text = None THEN "" ELSE msg.text[1])))
       => (Sends = {} /\ Deletes = {})

\* C12's case: a message whose text "hello" no rule matches and whose photo
\* holds a symbol that is left as it is: the call has ended with Ok.
C12_UnchangedMessageLeftAlone ==
  /\ pc = "update" /\ step = "end" /\ status = "ok"
  /\ msg.text = Some("hello") /\ msg.origin = "none"
  /\ msg.photo # None /\ calls = <<Request("get_file", TRUE)>>
  /\ replaced_image = None /\ changed_text = None

\* C13: a grid whose payload fails to decode is left out and is no error:
\* once the loop has met such a grid the call does not fail, and it ends
\* with Ok after every grid of the image has been visited.
C13_UndecodableGridSkipped ==
  (pc = "qr" /\ status # "run" /\ \E i \in 1..gi : ~image[i].decodes)
    => (status = "ok" /\ gi = Len(image))

\* C14: replace_twitter and replace_twitter_x rewrite every status URL of the
\* text they are given: their output is the text with each match of the
\* pattern replaced by the template.
C14_EveryStatusUrlRewritten ==
  (pc = "text" /\ stage >= 1 /\ status \in {"run", "ok"}
     /\ Rules[stage] \in {"twitter", "twitter_x"})
    => new = RegexReplaceAll(Rules[stage], before, FindIter(Rules[stage], before, 1))

\* The order of the rules the claim C15 states.
RuleOrder == <<"bshort", "twitter_short", "tiktok_share", "youtube", "btrack",
               "barticle", "bopus", "twitter", "twitter_x", "amazon",
               "amazon_search", "weixin", "jd">>

\* C15: every step of a replace_all call that advances `stage` runs the next
\* rule of the stated order on the output of the rule before it, and the
\* call returns Ok only after the 13th rule; so the b23.tv link that resolves
\* to a bilibili video URL comes out with no query key other than p and t,
\* and the t.co link that resolves to a status URL comes out as the status
\* path on the proxy host with no query.
C15_RulesInOrderOnPreviousOutput ==
  [][(pc' = "text" /\ stage' # stage /\ stage' # 0)
       => /\ pc = "text" /\ status = "run" /\ stage' = stage + 1
          /\ before' = new
          /\ \E r \in {Apply(RuleOrder[stage + 1], net, new)} :
               /\ new' = r.s
               /\ status' = IF r.st # "ok" THEN r.st
                             ELSE IF stage' = Len(RuleOrder) THEN "ok" ELSE "run"
          /\ (status' = "ok" /\ prev' = <<>> /\ input' = "https://b23.tv/a")
               => /\ UrlParse(new').host = "www.bilibili.com"
                  /\ Keys(UrlParse(new')) \subseteq {"p", "t"}
          /\ (status' = "ok" /\ prev' = <<>> /\ input' = "https://t.co/c")
               => new' = "https://fixupx.com/u/status/1"]_vars

\* C15's case: the t.co link was resolved to a twitter.com status URL with a
\* query by the second rule and rewritten by the eighth.
C15_ResolvedThenNormalized ==
  /\ pc = "text" /\ net = NetUp /\ input = "https://t.co/c" /\ prev = <<>>
  /\ status = "ok" /\ stage = Len(Rules)
  /\ Len(reqs) = 1 /\ reqs[1].got = "https://twitter.com/u/status/1?s=20"
  /\ new = "https://fixupx.com/u/status/1"

\* No match of `matches` in s holds a space.
Spaceless(s, matches) ==
  \A i \in DOMAIN matches : ~Contains(AsStr(s, matches[i]), " ")

\* C16: no match of a rule reaches past the URL into the prose after it: a
\* match holds no space, and the text after the article URL with a query is
\* in the output as it was.
C16_MatchEndsWithUrl ==
  /\ (pc = "text" /\ stage >= 1 /\ status \in {"run", "ok"})
       => Spaceless(before, FindIter(Rules[stage], before, 1))
  /\ (pc = "text" /\ status = "ok" /\ prev = <<>>
        /\ input = "https://www.bilibili.com/read/mobile/1?x=1 hello")
       => new = "https://www.bilibili.com/read/cv1 hello"

====
